---- MODULE Spec2Model ----
(***************************************************************************)
(* Model of scripts/review-database.py: the cursor-driven table scan       *)
(* (scan_table), the one-pass duplicate/owner analysis (analyze_accounts,  *)
(* analyze_transactions) and the orchestration in main (existence check,   *)
(* then the Accounts section, then the Transactions section).              *)
(*                                                                         *)
(* Python values are represented as follows.                               *)
(*   None / a missing dict key  : the empty tuple <<>>                     *)
(*   a present value x          : the one-element tuple <<x>>              *)
(*   a dict / defaultdict       : a function whose DOMAIN is its key set   *)
(*   a DynamoDB key dict        : a set of page addresses ({} is the empty *)
(*                                dict, which Python treats as false)      *)
(*   a reference to an item     : the position of that item in `items`    *)
(*                                (the dict object appended to a group is  *)
(*                                the very object held by the item list)   *)
(***************************************************************************)
EXTENDS Integers, Sequences, FiniteSets, TLC

VARIABLES
    pc,                 \* position in main
    sec,                \* the analysis section main is in ("Accounts" / "Transactions")
    table_i,            \* index of the `for table in tables` loop
    existing_tables,    \* main's existing_tables list
    probe,              \* outcome of the most recent describe_table call and what was printed for it
    output_dir,         \* args.output_dir (None or a directory)
    backend,            \* the page chain the store serves for the table being scanned
    items,              \* scan_table's items / the list handed to the analysis
    last_evaluated_key, \* scan_table's last_evaluated_key
    requests,           \* the table and the page addresses that the most recent call of
                        \* scan_table has requested from the store so far
    analysis,           \* main's `analysis` (None until an analyze_* call returned)
    outcome,            \* per section, what the run printed and wrote for it: whether
                        \* scan_table printed "Found 0 items" or "Found n items" with
                        \* n > 0 (or nothing yet), whether analyze_* returned,
                        \* whether the analysis was printed and saved, and the stage
                        \* whose exception the except clause reported
    rerun               \* when scan_table and analyze_* are called again on a table: how
                        \* many calls were made, the page chain of the table called
                        \* twice, and the items and the analysis its first call returned

vars == <<pc, sec, table_i, existing_tables, probe, output_dir, backend, items,
          last_evaluated_key, requests, analysis, outcome, rerun>>

-----------------------------------------------------------------------------
(* Bounds of the model *)

MaxPages == 2
MaxPageLen == 1
MaxItems == 2

-----------------------------------------------------------------------------
(* Python values *)

None == <<>>
Some(x) == <<x>>
Opt(S) == {None} \cup {Some(x) : x \in S}

EmptyDict == [k \in {} |-> 0]

\* truth value of an optional string: None and '' are false
TruthyStr(v) == v # None /\ v[1] # ""

\* truth value of an optional key dict: None and {} are false
TruthyKey(k) == k # None /\ k[1] # {}

\* variant of DictAppend: `d[k] = [x]`
DictAppend_assigns(d, k, x) ==
    IF k \in DOMAIN d THEN [d EXCEPT ![k] = <<x>>] ELSE d @@ (k :> <<x>>)

\* defaultdict(list)[k].append(x)
DictAppend(d, k, x) ==
    IF k \in DOMAIN d THEN [d EXCEPT ![k] = Append(@, x)] ELSE d @@ (k :> <<x>>)

\* variant of DictIncr: `d[k] = 1`
DictIncr_assigns(d, k) ==
    IF k \in DOMAIN d THEN [d EXCEPT ![k] = 1] ELSE d @@ (k :> 1)

\* defaultdict(int)[k] += 1
DictIncr(d, k) ==
    IF k \in DOMAIN d THEN [d EXCEPT ![k] = @ + 1] ELSE d @@ (k :> 1)

-----------------------------------------------------------------------------
(* Records *)

\* The strings an item can carry: for an identity field the empty string (false
\* in Python) and an ordinary id; for an owner field the string 'N/A' (the
\* default the analysis uses for a missing owner) and an ordinary owner.
IdStrings == {"", "A"}
OwnerStrings == {"N/A", "u1"}
AccountRefStrings == {"N/A", "A"}

\* items of the Accounts table, as analyze_accounts reads them
AccountItems ==
    [accountId : Opt(IdStrings), plaidAccountId : Opt(IdStrings),
     userId : Opt(OwnerStrings), active : Opt(BOOLEAN)]

\* items of the Transactions table, as analyze_transactions reads them
TransactionItems ==
    [transactionId : Opt(IdStrings), plaidTransactionId : Opt(IdStrings),
     userId : Opt(OwnerStrings), accountId : Opt(AccountRefStrings)]

\* variant of ItemGetS: the id is read with the 'N/A' default of the owner fields
ItemGetS_defaultNA(item, field) == IF item[field] = None THEN Some("N/A") ELSE item[field]

\* item.get(field, {}).get('S')
ItemGetS(item, field) == item[field]

\* item.get(field, {}).get('S', 'N/A')
ItemGetSOrNA(item, field) == IF item[field] = None THEN "N/A" ELSE item[field][1]

\* item.get('active', {}).get('BOOL', True)
ItemGetActive(item) == IF item.active = None THEN TRUE ELSE item.active[1]

-----------------------------------------------------------------------------
(* analyze_accounts / analyze_transactions *)

\* `if account_id: account_id_map[account_id].append(item)`
IndexItem(id_map, id, ref) ==
    IF TruthyStr(id) THEN DictAppend(id_map, id[1], ref) ELSE id_map

\* variant of FindDuplicates: `if len(group) >= 1`
FindDuplicates_atLeastOne(id_map) ==
    [k \in {k \in DOMAIN id_map : Len(id_map[k]) >= 1} |-> id_map[k]]

\* `for k, group in id_map.items(): if len(group) > 1: duplicates[k] = group`
FindDuplicates(id_map) ==
    [k \in {k \in DOMAIN id_map : Len(id_map[k]) > 1} |-> id_map[k]]

\* body of the `for item in items` loop of analyze_accounts
AccountsStep(st, item, ref) ==
    LET account_id == ItemGetS(item, "accountId")
        plaid_id == ItemGetS(item, "plaidAccountId")
        user_id == ItemGetSOrNA(item, "userId")
        active == ItemGetActive(item)
    IN [account_id_map |-> IndexItem(st.account_id_map, account_id, ref),
        plaid_id_map |-> IndexItem(st.plaid_id_map, plaid_id, ref),
        by_user |-> DictIncr(st.by_user, user_id),
        active |-> IF active THEN st.active + 1 ELSE st.active,
        inactive |-> IF active THEN st.inactive ELSE st.inactive + 1]

RECURSIVE AccountsLoop(_, _, _)
AccountsLoop(its, i, st) ==
    IF i > Len(its) THEN st ELSE AccountsLoop(its, i + 1, AccountsStep(st, its[i], i))

analyze_accounts(its) ==
    LET st == AccountsLoop(its, 1,
                  [account_id_map |-> EmptyDict, plaid_id_map |-> EmptyDict,
                   by_user |-> EmptyDict, active |-> 0, inactive |-> 0])
    IN [total |-> Len(its),
        duplicate_account_ids |-> FindDuplicates(st.account_id_map),
        duplicate_plaid_ids |-> FindDuplicates(st.plaid_id_map),
        by_user |-> st.by_user,
        active |-> st.active,
        inactive |-> st.inactive]

\* body of the `for item in items` loop of analyze_transactions
TransactionsStep(st, item, ref) ==
    LET trans_id == ItemGetS(item, "transactionId")
        plaid_id == ItemGetS(item, "plaidTransactionId")
        user_id == ItemGetSOrNA(item, "userId")
        account_id == ItemGetSOrNA(item, "accountId")
    IN [transaction_id_map |-> IndexItem(st.transaction_id_map, trans_id, ref),
        plaid_id_map |-> IndexItem(st.plaid_id_map, plaid_id, ref),
        by_user |-> DictIncr(st.by_user, user_id),
        by_account |-> DictIncr(st.by_account, account_id)]

RECURSIVE TransactionsLoop(_, _, _)
TransactionsLoop(its, i, st) ==
    IF i > Len(its) THEN st
    ELSE TransactionsLoop(its, i + 1, TransactionsStep(st, its[i], i))

analyze_transactions(its) ==
    LET st == TransactionsLoop(its, 1,
                  [transaction_id_map |-> EmptyDict, plaid_id_map |-> EmptyDict,
                   by_user |-> EmptyDict, by_account |-> EmptyDict])
    IN [total |-> Len(its),
        duplicate_transaction_ids |-> FindDuplicates(st.transaction_id_map),
        duplicate_plaid_ids |-> FindDuplicates(st.plaid_id_map),
        by_user |-> st.by_user,
        by_account |-> st.by_account]

-----------------------------------------------------------------------------
(* The store *)

\* main's `tables` list (the common --table-prefix is left out of the names)
Tables == <<"Users", "Accounts", "Transactions", "Budgets", "Goals", "AuditLogs">>

TableSet == {Tables[i] : i \in 1..Len(Tables)}

\* the two tables main scans and analyzes, in program order
Sections == {"Accounts", "Transactions"}

Range(seq) == {seq[i] : i \in 1..Len(seq)}

SeqsUpTo(S, n) == UNION {[1..k -> S] : k \in 0..n}

\* items the store serves in the run of main: an item with nothing but its
\* primary id, and an item without any of the fields the analysis reads
AccountScanItems ==
    {r \in AccountItems :
        /\ r.accountId \in {None, Some("A")}
        /\ r.plaidAccountId = None /\ r.userId = None /\ r.active = None}

TransactionScanItems ==
    {r \in TransactionItems :
        /\ r.transactionId \in {None, Some("A")}
        /\ r.plaidTransactionId = None /\ r.userId = None /\ r.accountId = None}

ScanItems(s) == IF s = "Accounts" THEN AccountScanItems ELSE TransactionScanItems

\* A finite chain of pages: page j < n carries the key that addresses page j+1,
\* the last page carries no LastEvaluatedKey (None) or an empty one ({}).
MakeChain(page_items, end_key) ==
    [j \in 1..Len(page_items) |->
        [Items |-> page_items[j],
         LastEvaluatedKey |-> IF j < Len(page_items) THEN Some({j + 1}) ELSE end_key]]

Chains(s) ==
    {MakeChain(page_items, end_key) :
        page_items \in UNION {[1..n -> SeqsUpTo(ScanItems(s), MaxPageLen)] : n \in 1..MaxPages},
        end_key \in {None, Some({})}}

\* the page a scan request addresses: the first one without ExclusiveStartKey
PageAddressed(start_key) == IF start_key = None THEN 1 ELSE CHOOSE n \in start_key[1] : TRUE

\* dynamodb_client.scan(TableName=..., [ExclusiveStartKey=...]) when it succeeds
BackendScan(chain, start_key) == chain[PageAddressed(start_key)]

-----------------------------------------------------------------------------
(* scan_table *)

\* `if last_evaluated_key:` chooses the request with or without ExclusiveStartKey
RequestKey(lek) == IF TruthyKey(lek) THEN lek ELSE None

\* variant of Extend: `items = response.get('Items', [])`
Extend_assigns(its, response) == response.Items

\* `items.extend(response.get('Items', []))`
Extend(its, response) == its \o response.Items

\* variant of LoopBreak: the loop also ends on a page without items
LoopBreak_onEmptyPage(response) ==
    ~TruthyKey(response.LastEvaluatedKey) \/ response.Items = <<>>

\* `last_evaluated_key = response.get('LastEvaluatedKey'); if not last_evaluated_key: break`
LoopBreak(response) == ~TruthyKey(response.LastEvaluatedKey)

\* bound on the requests of one scan (a correct scan of a chain needs at most MaxPages)
MaxRequests == MaxPages + 1

-----------------------------------------------------------------------------
(* main *)

NoRequests == [table |-> "", pages |-> <<>>]

NoProbe == [table |-> "", result |-> "none", printed |-> "none"]

NoOutcome ==
    [found |-> "none", analyzed |-> FALSE, printed |-> FALSE, saved |-> FALSE,
     error |-> "none"]

\* no call of scan_table has been repeated
NoRerun == [calls |-> 0, chain |-> <<>>, items |-> <<>>, report |-> None]

Init ==
    /\ pc = "init"
    /\ sec = "Accounts"
    /\ table_i = 1
    /\ existing_tables = <<>>
    /\ probe = NoProbe
    /\ output_dir \in {None, Some("out")}
    /\ backend = <<>>
    /\ items = <<>>
    /\ last_evaluated_key = None
    /\ requests = NoRequests
    /\ analysis = None
    /\ outcome = [s \in Sections |-> NoOutcome]
    /\ rerun = NoRerun

\* boto3.client(...) succeeds
ClientOk ==
    /\ pc = "init"
    /\ pc' = "check"
    /\ UNCHANGED <<rerun, sec, table_i, existing_tables, probe, output_dir, backend, items,
                   last_evaluated_key, requests, analysis, outcome>>

\* boto3.client(...) raises: print_error, sys.exit(1)
ClientFails ==
    /\ pc = "init"
    /\ pc' = "exit"
    /\ UNCHANGED <<rerun, sec, table_i, existing_tables, probe, output_dir, backend, items,
                   last_evaluated_key, requests, analysis, outcome>>

\* what one iteration of the existence loop prints for a describe_table outcome
ProbePrints(result) ==
    CASE result = "exists" -> "success"
      [] result = "not_found" -> "warning"
      [] OTHER -> "error"

\* variant of ProbeRecord: only ResourceNotFoundException keeps a table out
ProbeRecord_keepsOnError(existing, table, result) ==
    IF result # "not_found" THEN Append(existing, table) ELSE existing

\* existing_tables after one iteration of the existence loop
ProbeRecord(existing, table, result) ==
    IF result = "exists" THEN Append(existing, table) ELSE existing

\* variant of Probe: a describe_table that raises another exception is tried again
Probe_retriesOnError ==
    /\ pc = "check"
    /\ table_i <= Len(Tables)
    /\ \E result \in {"exists", "not_found", "error"} :
          /\ existing_tables' = ProbeRecord(existing_tables, Tables[table_i], result)
          /\ probe' = [table |-> Tables[table_i], result |-> result,
                       printed |-> ProbePrints(result)]
          /\ table_i' = IF result = "error" THEN table_i ELSE table_i + 1
    /\ UNCHANGED <<rerun, pc, sec, output_dir, backend, items, last_evaluated_key, requests,
                   analysis, outcome>>

\* one iteration of `for table in tables`: describe_table returns, raises
\* ResourceNotFoundException, or raises another exception
Probe ==
    /\ pc = "check"
    /\ table_i <= Len(Tables)
    /\ \E result \in {"exists", "not_found", "error"} :
          /\ existing_tables' = ProbeRecord(existing_tables, Tables[table_i], result)
          /\ probe' = [table |-> Tables[table_i], result |-> result,
                       printed |-> ProbePrints(result)]
    /\ table_i' = table_i + 1
    /\ UNCHANGED <<rerun, pc, sec, output_dir, backend, items, last_evaluated_key, requests,
                   analysis, outcome>>

\* the loop is over: print_header("Step 2: Analyzing Tables")
StartAnalyzing ==
    /\ pc = "check"
    /\ table_i > Len(Tables)
    /\ pc' = "section"
    /\ sec' = "Accounts"
    /\ probe' = NoProbe
    /\ UNCHANGED <<rerun, table_i, existing_tables, output_dir, backend, items,
                   last_evaluated_key, requests, analysis, outcome>>

\* variant of PcAfter: the Accounts section is the last thing main does
PcAfter_endsRun(s) == "complete"

\* where main continues after the section of s: the Transactions section after
\* Accounts, print_header("Review Complete!") after Transactions
PcAfter(s) == IF s = "Accounts" THEN "section" ELSE "complete"

\* control leaves the section of s; the section's locals are dead from here on
LeaveSection(s) ==
    /\ pc' = PcAfter(s)
    /\ sec' = "Transactions"
    /\ backend' = <<>>
    /\ items' = <<>>
    /\ last_evaluated_key' = None
    /\ analysis' = None

\* variant of Except: the handler ends the run as the client handler does (sys.exit(1))
Except_exits(s, stage) ==
    /\ outcome' = [outcome EXCEPT ![s].error = stage]
    /\ pc' = "exit"
    /\ UNCHANGED <<sec, backend, items, last_evaluated_key, analysis>>

\* variant of Except: the handler swallows the exception (`except Exception: pass`)
Except_swallows(s, stage) ==
    /\ UNCHANGED outcome
    /\ LeaveSection(s)

\* `except Exception as e: print_error(...)` of the section of s
Except(s, stage) ==
    /\ outcome' = [outcome EXCEPT ![s].error = stage]
    /\ LeaveSection(s)

\* `if f"{prefix}-<s>" in existing_tables:` is false
SectionSkipped(s) ==
    /\ pc = "section" /\ sec = s
    /\ s \notin Range(existing_tables)
    /\ LeaveSection(s)
    /\ UNCHANGED <<rerun, table_i, existing_tables, probe, output_dir, requests, outcome>>

\* variant of ScanTableCalled: the items of a table outlive the call (a
\* module-level list per table name), so a second scan of the table adds to them
ScanTableCalled_keepsItems(s, chain) ==
    /\ pc' = "scan"
    /\ items' = IF requests.table = s THEN items ELSE <<>>
    /\ last_evaluated_key' = None
    /\ backend' = chain
    /\ requests' = [table |-> s, pages |-> <<>>]

\* scan_table(client, table_name) is called on a table whose store holds chain:
\* `items = []`, `last_evaluated_key = None`
ScanTableCalled(s, chain) ==
    /\ pc' = "scan"
    /\ items' = <<>>
    /\ last_evaluated_key' = None
    /\ backend' = chain
    /\ requests' = [table |-> s, pages |-> <<>>]

\* `if ... in existing_tables:` is true: scan_table is called
SectionEntered(s) ==
    /\ pc = "section" /\ sec = s
    /\ s \in Range(existing_tables)
    /\ \E chain \in Chains(s) : ScanTableCalled(s, chain)
    /\ UNCHANGED <<rerun, sec, table_i, existing_tables, probe, output_dir, analysis, outcome>>

\* what "Found {len(items)} items" tells about the result: nothing or something
Found(n) == IF n = 0 THEN "zero" ELSE "some"

\* one iteration of scan_table's `while True` whose request succeeds; when the
\* loop breaks scan_table prints "Found {len(items)} items" and returns
ScanFetch(s) ==
    /\ pc = "scan" /\ sec = s
    /\ Len(requests.pages) < MaxRequests
    /\ LET key == RequestKey(last_evaluated_key)
           response == BackendScan(backend, key)
       IN /\ requests' = [requests EXCEPT !.pages = Append(@, PageAddressed(key))]
          /\ items' = Extend(items, response)
          /\ last_evaluated_key' = response.LastEvaluatedKey
          /\ IF LoopBreak(response)
             THEN /\ pc' = "analyze"
                  /\ outcome' = [outcome EXCEPT ![s].found = Found(Len(items'))]
             ELSE /\ pc' = "scan"
                  /\ UNCHANGED outcome
    /\ UNCHANGED <<rerun, sec, table_i, existing_tables, probe, output_dir, backend, analysis>>

\* variant of ScanRaise: scan_table reports the error itself and returns what it has
ScanRaise_returnsPartial(s) ==
    /\ pc = "scan" /\ sec = s
    /\ Len(requests.pages) < MaxRequests
    /\ requests' = [requests EXCEPT !.pages = Append(@, PageAddressed(RequestKey(last_evaluated_key)))]
    /\ outcome' = [outcome EXCEPT ![s].error = "scan", ![s].found = Found(Len(items))]
    /\ pc' = "analyze"
    /\ UNCHANGED <<rerun, sec, table_i, existing_tables, probe, output_dir, backend, items,
                   last_evaluated_key, analysis>>

\* one iteration of scan_table's `while True` whose request raises: the exception
\* leaves scan_table and is caught by the section's except clause
ScanRaise(s) ==
    /\ pc = "scan" /\ sec = s
    /\ Len(requests.pages) < MaxRequests
    /\ requests' = [requests EXCEPT !.pages = Append(@, PageAddressed(RequestKey(last_evaluated_key)))]
    /\ Except(s, "scan")
    /\ UNCHANGED <<rerun, table_i, existing_tables, probe, output_dir>>

\* variant of EmptySkipped: an empty scan is treated as a failure of the section
EmptySkipped_raises(s) ==
    /\ pc = "analyze" /\ sec = s
    /\ items = <<>>
    /\ Except(s, "analyze")
    /\ UNCHANGED <<rerun, table_i, existing_tables, probe, output_dir, requests>>

\* `if accounts:` / `if transactions:` is false
EmptySkipped(s) ==
    /\ pc = "analyze" /\ sec = s
    /\ items = <<>>
    /\ LeaveSection(s)
    /\ UNCHANGED <<rerun, table_i, existing_tables, probe, output_dir, requests, outcome>>

Analyze(s, its) ==
    IF s = "Accounts" THEN analyze_accounts(its) ELSE analyze_transactions(its)

\* analysis = analyze_accounts(accounts) / analyze_transactions(transactions)
AnalyzeOk(s) ==
    /\ pc = "analyze" /\ sec = s
    /\ items # <<>>
    /\ analysis' = Some(Analyze(s, items))
    /\ outcome' = [outcome EXCEPT ![s].analyzed = TRUE]
    /\ pc' = "print"
    /\ UNCHANGED <<rerun, sec, table_i, existing_tables, probe, output_dir, backend, items,
                   last_evaluated_key, requests>>

\* the analyze_* call raises (an item that is not the dict of dicts it expects)
AnalyzeRaise(s) ==
    /\ pc = "analyze" /\ sec = s
    /\ items # <<>>
    /\ Except(s, "analyze")
    /\ UNCHANGED <<rerun, table_i, existing_tables, probe, output_dir, requests>>

\* print_account_analysis(analysis) / print_transaction_analysis(analysis)
PrintOk(s) ==
    /\ pc = "print" /\ sec = s
    /\ outcome' = [outcome EXCEPT ![s].printed = TRUE]
    /\ pc' = "save"
    /\ UNCHANGED <<rerun, sec, table_i, existing_tables, probe, output_dir, backend, items,
                   last_evaluated_key, requests, analysis>>

PrintRaise(s) ==
    /\ pc = "print" /\ sec = s
    /\ Except(s, "print")
    /\ UNCHANGED <<rerun, table_i, existing_tables, probe, output_dir, requests>>

\* `if args.output_dir:` is false
SaveSkipped(s) ==
    /\ pc = "save" /\ sec = s
    /\ output_dir = None
    /\ LeaveSection(s)
    /\ UNCHANGED <<rerun, table_i, existing_tables, probe, output_dir, requests, outcome>>

\* os.makedirs, open and json.dump succeed
SaveOk(s) ==
    /\ pc = "save" /\ sec = s
    /\ output_dir # None
    /\ outcome' = [outcome EXCEPT ![s].saved = TRUE]
    /\ LeaveSection(s)
    /\ UNCHANGED <<rerun, table_i, existing_tables, probe, output_dir, requests>>

\* os.makedirs, open or json.dump raises
SaveRaise(s) ==
    /\ pc = "save" /\ sec = s
    /\ output_dir # None
    /\ Except(s, "save")
    /\ UNCHANGED <<rerun, table_i, existing_tables, probe, output_dir, requests>>

Next ==
    \/ ClientOk
    \/ ClientFails
    \/ Probe
    \/ StartAnalyzing
    \/ \E s \in Sections : SectionSkipped(s)
    \/ \E s \in Sections : SectionEntered(s)
    \/ \E s \in Sections : ScanFetch(s)
    \/ \E s \in Sections : ScanRaise(s)
    \/ \E s \in Sections : EmptySkipped(s)
    \/ \E s \in Sections : AnalyzeRaise(s)
    \/ \E s \in Sections : AnalyzeOk(s)
    \/ \E s \in Sections : PrintOk(s)
    \/ \E s \in Sections : PrintRaise(s)
    \/ \E s \in Sections : SaveSkipped(s)
    \/ \E s \in Sections : SaveOk(s)
    \/ \E s \in Sections : SaveRaise(s)

Spec == Init /\ [][Next]_vars

TypeOK ==
    /\ pc \in {"init", "exit", "check", "section", "scan", "analyze", "print", "save",
               "complete"}
    /\ sec \in Sections
    /\ table_i \in 1..(Len(Tables) + 1)
    /\ Range(existing_tables) \subseteq TableSet

-----------------------------------------------------------------------------
(* The analysis functions on their own: analyze_accounts and                *)
(* analyze_transactions applied to every item list within the bounds.       *)

ItemsOf(s) == IF s = "Accounts" THEN AccountItems ELSE TransactionItems

AnalyzeInit ==
    /\ pc = "call"
    /\ sec \in Sections
    /\ items \in SeqsUpTo(ItemsOf(sec), MaxItems)
    /\ analysis = None
    /\ table_i = 1
    /\ existing_tables = <<>>
    /\ probe = NoProbe
    /\ output_dir = None
    /\ backend = <<>>
    /\ last_evaluated_key = None
    /\ requests = NoRequests
    /\ outcome = [s \in Sections |-> NoOutcome]
    /\ rerun = NoRerun

\* analyze_accounts(items) returns
CallAnalyzeAccounts ==
    /\ pc = "call" /\ sec = "Accounts"
    /\ analysis' = Some(analyze_accounts(items))
    /\ pc' = "return"
    /\ UNCHANGED <<rerun, sec, table_i, existing_tables, probe, output_dir, backend, items,
                   last_evaluated_key, requests, outcome>>

\* analyze_transactions(items) returns
CallAnalyzeTransactions ==
    /\ pc = "call" /\ sec = "Transactions"
    /\ analysis' = Some(analyze_transactions(items))
    /\ pc' = "return"
    /\ UNCHANGED <<rerun, sec, table_i, existing_tables, probe, output_dir, backend, items,
                   last_evaluated_key, requests, outcome>>

AnalyzeNext == CallAnalyzeAccounts \/ CallAnalyzeTransactions

AnalyzeSpec == AnalyzeInit /\ [][AnalyzeNext]_vars

-----------------------------------------------------------------------------
(* scan_table and analyze_* called again: one table is scanned and          *)
(* analyzed, then the other table twice in a row while its store is         *)
(* unchanged. Only calls that return are followed.                          *)

\* scan_table has returned and, unless it returned nothing (`if accounts:`),
\* analyze_* has returned
CallReturned == pc = "print" \/ (pc = "analyze" /\ items = <<>>)

\* the analysis the call produced; None when there was nothing to analyze
Report == IF pc = "print" THEN analysis ELSE None

OtherSection(s) == IF s = "Accounts" THEN "Transactions" ELSE "Accounts"

RerunInit ==
    /\ pc = "call"
    /\ sec \in Sections
    /\ table_i = Len(Tables) + 1
    /\ existing_tables = <<"Accounts", "Transactions">>
    /\ probe = NoProbe
    /\ output_dir = None
    /\ backend = <<>>
    /\ items = <<>>
    /\ last_evaluated_key = None
    /\ requests = NoRequests
    /\ analysis = None
    /\ outcome = [s \in Sections |-> NoOutcome]
    /\ rerun = NoRerun

\* scan_table is called on the table of sec
ScanOther ==
    /\ pc = "call"
    /\ rerun.calls = 0
    /\ \E chain \in Chains(sec) : ScanTableCalled(sec, chain)
    /\ rerun' = [rerun EXCEPT !.calls = 1]
    /\ UNCHANGED <<sec, table_i, existing_tables, probe, output_dir, analysis, outcome>>

\* scan_table is called on the other table, for the first time
ScanFirst ==
    /\ CallReturned
    /\ rerun.calls = 1
    /\ sec' = OtherSection(sec)
    /\ \E chain \in Chains(sec') :
          /\ ScanTableCalled(sec', chain)
          /\ rerun' = [rerun EXCEPT !.calls = 2, !.chain = chain]
    /\ UNCHANGED <<table_i, existing_tables, probe, output_dir, analysis, outcome>>

\* scan_table is called on the same table again, its store unchanged
ScanAgain ==
    /\ CallReturned
    /\ rerun.calls = 2
    /\ ScanTableCalled(sec, rerun.chain)
    /\ rerun' = [rerun EXCEPT !.calls = 3, !.items = items, !.report = Report]
    /\ UNCHANGED <<sec, table_i, existing_tables, probe, output_dir, analysis, outcome>>

RerunNext ==
    \/ ScanOther
    \/ ScanFirst
    \/ ScanAgain
    \/ \E s \in Sections : ScanFetch(s)
    \/ \E s \in Sections : AnalyzeOk(s)

RerunSpec == RerunInit /\ [][RerunNext]_vars

-----------------------------------------------------------------------------
(* Properties of scan_table and main *)

RECURSIVE ConcatPages(_, _)
ConcatPages(chain, n) ==
    IF n = 0 THEN <<>> ELSE ConcatPages(chain, n - 1) \o chain[n].Items

RECURSIVE SumPageLens(_, _)
SumPageLens(chain, n) ==
    IF n = 0 THEN 0 ELSE SumPageLens(chain, n - 1) + Len(chain[n].Items)

\* scan_table has returned to the section and its result is still in scope
ScanReturned == pc \in {"analyze", "print", "save"}

\* a cursor that is absent: no LastEvaluatedKey in the response, or an empty one
CursorAbsent(k) == k = None \/ k = Some({})

\* C1: once scan_table has returned, its result is the concatenation, in fetch
\* order, of the items of every page of the chain, every page was requested
\* exactly once (page 1 without a cursor, then each page by the cursor of the
\* one before), the length of the result is the sum of the page lengths, and
\* so is the 'total' of the report computed from it.
C1_ScanReturnsEveryPageOnce ==
    /\ ScanReturned =>
          /\ items = ConcatPages(backend, Len(backend))
          /\ requests = [table |-> sec, pages |-> [j \in 1..Len(backend) |-> j]]
          /\ Len(items) = SumPageLens(backend, Len(backend))
          /\ outcome[sec].found = Found(SumPageLens(backend, Len(backend)))
    /\ analysis # None => analysis[1].total = SumPageLens(backend, Len(backend))

C1_Witness ==
    /\ pc = "print" /\ sec = "Accounts"
    /\ Len(backend) = 2
    /\ Len(items) = 2 /\ items[1] # items[2]
    /\ analysis # None /\ analysis[1].total = 2

\* C2: the scan stops exactly when a response carries an absent cursor: while
\* scan_table is still looping every response so far carried a cursor and pages
\* remain, and when it has returned it made exactly as many requests as the
\* chain has pages, the last of which carried no cursor; whether a page had
\* items plays no part.
C2_ScanStopsOnAbsentCursor ==
    /\ (pc = "scan" /\ requests.pages # <<>>) =>
          /\ Len(requests.pages) < Len(backend)
          /\ ~CursorAbsent(backend[Len(requests.pages)].LastEvaluatedKey)
          /\ last_evaluated_key = backend[Len(requests.pages)].LastEvaluatedKey
    /\ ScanReturned =>
          /\ Len(requests.pages) = Len(backend)
          /\ CursorAbsent(backend[Len(backend)].LastEvaluatedKey)
          /\ \A j \in 1..(Len(backend) - 1) : ~CursorAbsent(backend[j].LastEvaluatedKey)

C2_Witness ==
    /\ pc = "analyze"
    /\ Len(backend) = 2
    /\ backend[1].Items = <<>> /\ backend[2].Items # <<>>
    /\ Len(requests.pages) = 2
    /\ items = backend[2].Items

\* C3: once a page request of a section's scan has raised, no further page of
\* that table is requested, control is no longer in that section's scan or
\* analysis, and the section never gets an analysis, a printed report or an
\* output file.
C3_ScanErrorAbortsSection ==
    [][\A s \in Sections :
          outcome'[s].error = "scan" =>
              /\ ~outcome'[s].analyzed /\ ~outcome'[s].printed /\ ~outcome'[s].saved
              /\ outcome'[s].found = "none"
              /\ ~(sec' = s /\ pc' \in {"scan", "analyze", "print", "save"})
              /\ (outcome[s].error = "scan" /\ requests'.table = s) => requests' = requests]_vars

C3_Witness ==
    /\ pc = "complete"
    /\ outcome["Transactions"].error = "scan"
    /\ requests = [table |-> "Transactions", pages |-> <<1, 2>>]
    /\ ~outcome["Transactions"].analyzed

\* the section of s ran to completion: scanned and, unless nothing was found,
\* analyzed, printed and (with an output directory) saved
SectionCompleted(s) ==
    /\ outcome[s].error = "none"
    /\ outcome[s].found # "none"
    /\ outcome[s].found = "some" =>
          /\ outcome[s].analyzed
          /\ outcome[s].printed
          /\ output_dir # None => outcome[s].saved

SectionFailed(s) == outcome[s].error # "none"

\* an upper bound on the number of steps main can still take
StepsLeftInSection ==
    CASE pc = "section" -> MaxRequests + 5
      [] pc = "scan" -> (MaxRequests - Len(requests.pages)) + 4
      [] pc = "analyze" -> 3
      [] pc = "print" -> 2
      [] pc = "save" -> 1
      [] OTHER -> 0

StepsLeft ==
    CASE pc = "init" -> 2 * (MaxRequests + 6) + Len(Tables) + 3
      [] pc = "check" -> 2 * (MaxRequests + 6) + (Len(Tables) + 2 - table_i)
      [] pc \in {"complete", "exit"} -> 0
      [] OTHER -> StepsLeftInSection + (IF sec = "Accounts" THEN MaxRequests + 6 ELSE 0)

\* C4: a failure in one section (scan, analysis, print or save) never stops the
\* run short of "Review Complete": after a failure the run has not exited, it
\* always has a next step until "Review Complete" is printed, and every step
\* brings it closer; and at "Review Complete" every other existing section has
\* been scanned and has either run to completion or failed on its own account.
C4_FaultIsolation ==
    /\ [](\A s \in Sections :
            SectionFailed(s) => /\ pc # "exit"
                                /\ pc = "complete" \/ ENABLED Next)
    /\ [][StepsLeft' < StepsLeft]_vars
    /\ [](pc = "complete" =>
            \A s \in Sections :
                s \in Range(existing_tables) =>
                    SectionCompleted(s) \/ SectionFailed(s))

C4_Witness ==
    /\ pc = "complete"
    /\ outcome["Accounts"].error = "scan"
    /\ SectionCompleted("Transactions")
    /\ outcome["Transactions"].analyzed /\ outcome["Transactions"].printed

\* C10: a probe that reports "does not exist" prints a warning, leaves the table
\* out of existing_tables and lets the check go on; a probe that fails otherwise
\* prints the error and also leaves the table out; existing_tables only ever
\* grows by a table whose probe succeeded; and a table is only ever scanned if
\* it is in existing_tables.
C10_OnlyExistingTablesScanned ==
    /\ [](/\ probe.result = "not_found" =>
                /\ probe.table \notin Range(existing_tables)
                /\ probe.printed = "warning"
                /\ pc = "check"
          /\ probe.result = "error" =>
                /\ probe.table \notin Range(existing_tables)
                /\ probe.printed = "error"
                /\ pc = "check"
          /\ requests.pages # <<>> => requests.table \in Range(existing_tables)
          /\ pc \in {"scan", "analyze", "print", "save"} => sec \in Range(existing_tables))
    /\ [][existing_tables' # existing_tables =>
            /\ probe'.result = "exists"
            /\ existing_tables' = Append(existing_tables, probe'.table)]_vars

C10_Witness ==
    /\ pc = "check"
    /\ table_i > Len(Tables)
    /\ probe = [table |-> "AuditLogs", result |-> "not_found", printed |-> "warning"]
    /\ existing_tables = <<"Users", "Transactions">>

-----------------------------------------------------------------------------
(* Properties of analyze_accounts and analyze_transactions *)

\* an analyze_* call has returned its report for `items`
Returned == pc = "return" /\ analysis # None

\* the identity fields of a section's items
IdFields(s) ==
    IF s = "Accounts" THEN {"accountId", "plaidAccountId"}
    ELSE {"transactionId", "plaidTransactionId"}

\* the report's duplicate groups of an identity field
GroupsOf(report, field) ==
    CASE field = "accountId" -> report.duplicate_account_ids
      [] field = "transactionId" -> report.duplicate_transaction_ids
      [] OTHER -> report.duplicate_plaid_ids

\* the owner aggregates of a section's report: the owner field of each
OwnerFields(s) == IF s = "Accounts" THEN {"userId"} ELSE {"userId", "accountId"}

AggregateOf(report, field) == IF field = "userId" THEN report.by_user ELSE report.by_account

Positions == 1..Len(items)

Lacks(i, field) == items[i][field] = None

\* the positions of the items that carry value v in a field, as a set and in scan order
Holders(field, v) == {i \in Positions : items[i][field] = Some(v)}

HoldersInOrder(field, v) ==
    SelectSeq([i \in Positions |-> i], LAMBDA i : items[i][field] = Some(v))

PresentValues(field) == {items[i][field][1] : i \in {j \in Positions : ~Lacks(j, field)}}

\* how often item i occurs in the member lists of the groups G
Occurrences(G, i) ==
    Cardinality(UNION {{<<v, k>> : k \in {n \in 1..Len(G[v]) : G[v][n] = i}} : v \in DOMAIN G})

Count(d, k) == IF k \in DOMAIN d THEN d[k] ELSE 0

RECURSIVE SumOver(_, _)
SumOver(d, keys) ==
    IF keys = {} THEN 0
    ELSE LET k == CHOOSE x \in keys : TRUE IN d[k] + SumOver(d, keys \ {k})

C6_MissingFieldNeverGrouped ==
    Returned =>
        \A f \in IdFields(sec) :
            LET G == GroupsOf(analysis[1], f)
            IN /\ DOMAIN G \subseteq PresentValues(f)
               /\ \A i \in Positions : Lacks(i, f) => Occurrences(G, i) = 0
               /\ \A v \in DOMAIN G : \A n \in 1..Len(G[v]) : items[G[v][n]][f] = Some(v)

C6_Witness ==
    /\ Returned /\ sec = "Accounts"
    /\ Len(items) = 2
    /\ Lacks(1, "accountId") /\ Lacks(2, "accountId")
    /\ DOMAIN analysis[1].duplicate_account_ids = {}
    /\ analysis[1].duplicate_plaid_ids = ("A" :> <<1, 2>>)

C8_OwnerCountsSumToTotal ==
    Returned =>
        /\ analysis[1].total = Len(items)
        /\ \A f \in OwnerFields(sec) :
              LET d == AggregateOf(analysis[1], f)
              IN SumOver(d, DOMAIN d) = analysis[1].total

C8_Witness ==
    /\ Returned /\ sec = "Transactions"
    /\ Len(items) = 2
    /\ Lacks(1, "userId") /\ items[2].userId = Some("u1")
    /\ Lacks(1, "accountId") /\ Lacks(2, "accountId")
    /\ analysis[1].by_user = ("N/A" :> 1) @@ ("u1" :> 1)
    /\ analysis[1].by_account = ("N/A" :> 2)

\* C9 as stated: in every owner aggregate the count of each value that some item
\* carries is the number of items carrying it, and the count of the bucket for
\* an unknown owner (the key 'N/A') is the number of items without the field.
C9_Original ==
    Returned =>
        \A f \in OwnerFields(sec) :
            LET d == AggregateOf(analysis[1], f)
            IN /\ \A v \in PresentValues(f) : Count(d, v) = Cardinality(Holders(f, v))
               /\ Count(d, "N/A") = Cardinality({i \in Positions : Lacks(i, f)})

-----------------------------------------------------------------------------
(* Properties of main: which tables are scanned, and what a section leaves *)

\* scan_table returned for t and analyze_<t> returned its analysis; main has a
\* section, and so a scan, for the tables of Sections only
ScannedAndAnalyzed(t) ==
    /\ t \in Sections
    /\ outcome[t].found # "none"
    /\ outcome[t].analyzed

\* the section of s has not yet got as far as the end of its scan
ScanPending(s) == outcome[s].found = "none" /\ outcome[s].error = "none"

\* the statement of C11 as it was claimed: at "Review Complete" every table
\* found by the existence check has been scanned and analyzed
C11_Original ==
    pc = "complete" => \A t \in Range(existing_tables) : ScannedAndAnalyzed(t)

\* C11: of the candidate tables only Accounts and Transactions are ever scanned.
\* Each of the two that the existence check found is scanned in the same run:
\* while its scan is pending the run has neither exited nor completed and has a
\* next step, and every step brings the run closer to its end. At "Review
\* Complete" each of them is analyzed unless its scan raised, its scan found
\* nothing, or analyze_<t> raised. No request is ever sent for Users, Budgets,
\* Goals or AuditLogs.
C11_ExistingSectionsScanned ==
    /\ [](\A s \in Sections :
            (s \in Range(existing_tables) /\ ScanPending(s)) =>
                /\ pc \notin {"exit", "complete"}
                /\ ENABLED Next)
    /\ [][StepsLeft' < StepsLeft]_vars
    /\ [](pc = "complete" =>
            \A s \in Sections :
                s \in Range(existing_tables) =>
                    \/ outcome[s].error = "scan"
                    \/ outcome[s].found = "zero"
                    \/ outcome[s].error = "analyze"
                    \/ ScannedAndAnalyzed(s))
    /\ [](requests.table \in Sections \cup {""})

C11_Witness ==
    /\ pc = "complete"
    /\ existing_tables = Tables
    /\ ScannedAndAnalyzed("Accounts")
    /\ ScannedAndAnalyzed("Transactions")
    /\ requests.table = "Transactions"

\* C12: whenever control leaves the scan of a section other than by another
\* iteration or by scan_table returning, or leaves a non-empty section's
\* analysis other than with the analysis, the step prints the section's error
\* (the section of s, the stage that raised) and nothing else about s; a section
\* whose scan or analysis failed never has a printed report or an output file;
\* and an error once printed for a section is never followed by anything else
\* about that section.
C12_FailureIsRecorded ==
    /\ [][\A s \in Sections :
            /\ (sec = s /\ pc = "scan" /\ pc' \notin {"scan", "analyze"}) =>
                  outcome'[s] = [outcome[s] EXCEPT !.error = "scan"]
            /\ (sec = s /\ pc = "analyze" /\ items # <<>> /\ pc' # "print") =>
                  outcome'[s] = [outcome[s] EXCEPT !.error = "analyze"]]_vars
    /\ [](\A s \in Sections :
            outcome[s].error \in {"scan", "analyze"} =>
                /\ ~outcome[s].printed /\ ~outcome[s].saved
                /\ ~(sec = s /\ pc \in {"print", "save"}))
    /\ [][\A s \in Sections :
            outcome[s].error # "none" => outcome'[s] = outcome[s]]_vars

C12_Witness ==
    /\ pc = "complete"
    /\ outcome["Accounts"] = [NoOutcome EXCEPT !.found = "some", !.error = "analyze"]
    /\ outcome["Transactions"].error = "scan"

\* C13: every step of the existence loop probes tables[table_i] and moves on to
\* the next table whatever describe_table did, so each of the six tables is
\* probed exactly once; the loop index moves in no other step; and a scan is
\* requested only when all six tables have been probed and the loop is over.
C13_ProbesOnceBeforeScanning ==
    /\ [][(pc = "check" /\ pc' = "check") =>
            /\ table_i <= Len(Tables)
            /\ probe'.table = Tables[table_i]
            /\ probe'.result \in {"exists", "not_found", "error"}
            /\ table_i' = table_i + 1]_vars
    /\ [][table_i' # table_i => (pc = "check" /\ pc' = "check")]_vars
    /\ [](pc \in {"init", "check"} => requests = NoRequests)
    /\ [](requests # NoRequests =>
            /\ table_i = Len(Tables) + 1
            /\ probe = NoProbe)
    /\ [](pc \notin {"init", "check", "exit"} => table_i = Len(Tables) + 1)

C13_Witness ==
    /\ pc = "scan"
    /\ table_i = Len(Tables) + 1
    /\ existing_tables = <<"Accounts", "Budgets">>
    /\ requests = [table |-> "Accounts", pages |-> <<1>>]

-----------------------------------------------------------------------------
(* Properties of repeated calls *)

\* C14: when scan_table and analyze_* have been called a second time on a table
\* whose store is unchanged, after an earlier call on the other table, the
\* second call returns the items and the analysis of the first: same total,
\* same owner counts, same duplicate groups with the same members in the same
\* order, or no analysis both times.
C14_RescanSameReport ==
    (rerun.calls = 3 /\ CallReturned) =>
        /\ items = rerun.items
        /\ Report = rerun.report

C14_Witness ==
    /\ rerun.calls = 3 /\ pc = "print"
    /\ sec = "Accounts"
    /\ Len(rerun.chain) = 2
    /\ rerun.report # None
    /\ analysis = rerun.report
    /\ analysis[1].total = 2
    /\ analysis[1].duplicate_account_ids = ("A" :> <<1, 2>>)
    /\ outcome["Transactions"].analyzed

-----------------------------------------------------------------------------
(* Properties of main: the empty table *)

\* the section of s is over
SectionOver(s) == pc = "complete" \/ (s = "Accounts" /\ sec = "Transactions")

\* C15: scan_table reports "Found 0 items" exactly when it returns no items;
\* the step after such a return leaves the section without calling analyze_*,
\* printing, writing a file or reporting an error, so the section ends with
\* nothing but the "Found 0 items" line; the step after a return with items
\* calls analyze_*, which returns or raises, so at the end of a section whose
\* scan found items the analysis was made or its error reported.
C15_EmptyScanLeavesNothing ==
    /\ [](pc = "analyze" =>
            (outcome[sec].found = "zero") = (items = <<>>))
    /\ [](\A s \in Sections :
            outcome[s].found = "zero" => outcome[s] = [NoOutcome EXCEPT !.found = "zero"])
    /\ [][\A s \in Sections :
            (sec = s /\ pc = "analyze") =>
                IF items = <<>>
                THEN outcome' = outcome /\ pc' = PcAfter(s)
                ELSE \/ outcome'[s] = [outcome[s] EXCEPT !.analyzed = TRUE] /\ pc' = "print"
                     \/ outcome'[s] = [outcome[s] EXCEPT !.error = "analyze"]]_vars
    /\ [](\A s \in Sections :
            (outcome[s].found = "some" /\ SectionOver(s)) =>
                outcome[s].analyzed \/ outcome[s].error = "analyze")

C15_Witness ==
    /\ pc = "complete"
    /\ existing_tables = <<"Accounts", "Transactions">>
    /\ outcome["Accounts"] = [NoOutcome EXCEPT !.found = "zero"]
    /\ outcome["Transactions"].found = "some"
    /\ outcome["Transactions"].analyzed
    /\ output_dir # None /\ outcome["Transactions"].saved


=============================================================================
